---- MODULE Spec2Model ----
(***************************************************************************)
(* Model of the Windows Server 2012 iSCSI volume driver                    *)
(* (cinder/volume/drivers/windows/windows.py, windows_common.py).          *)
(*                                                                         *)
(* The WMI object store (WT_Disk, WT_Host, WT_IDMethod, WT_Snapshot,       *)
(* CIM_DataFile) is the state.  Each driver entry point is one action.     *)
(* The body of every Python method is an operator that takes the store     *)
(* and the method's arguments and yields a result record                   *)
(*     [st, exc, info, ret, calls, log]                                    *)
(* st: the store afterwards, exc: the exception that escaped (NoExc when   *)
(* the method returned), info: the exception's text, ret: the returned     *)
(* value, calls: the backend calls made, in order, log: the messages       *)
(* logged.                                                                 *)
(***************************************************************************)
EXTENDS Integers, Sequences, FiniteSets, TLC

VARIABLES wt_disks, wt_hosts, wt_idmethods, wt_snapshots, files,
          provider_location, last

vars == <<wt_disks, wt_hosts, wt_idmethods, wt_snapshots, files,
          provider_location, last>>

----------------------------------------------------------------------------
(* Python values *)

\* None where a string is expected
None == "<None>"
\* None where a mapping is expected
NoneObject == [NoneType |-> TRUE]

NoExc == "ok"
IndexError == "IndexError"
ValueError == "ValueError"
x_wmi == "x_wmi"
IOError == "IOError"
OSError == "OSError"
ImageUnacceptable == "ImageUnacceptable"
VolumeBackendAPIException == "VolumeBackendAPIException"

----------------------------------------------------------------------------
(* Bounds *)

\* disk handles (WTD) the backend can hand out
MaxDisks == 2
\* snapshot ids the backend can hand out
MaxSnapshots == 1
\* the largest size (GB) a volume is extended to
MaxSizeGB == 3

----------------------------------------------------------------------------
(* Configuration and the records the volume manager passes in *)

iscsi_target_prefix == "iqn.2010-10.org.openstack:"
windows_iscsi_lun_path == "C:\\iSCSIVirtualDisks"
image_conversion_dir == "C:\\ImageConversionDir"

Volumes == { [name |-> "volume-1", id |-> "1", size |-> 1],
             [name |-> "volume-2", id |-> "2", size |-> 2] }
VolNames == { v.name : v \in Volumes }

Snapshots == { [name |-> "snapshot-1", volume_name |-> "volume-1"] }

Connectors == { [initiator |-> "iqn.1991-05.com.microsoft:node1"] }

\* values of volume['provider_auth']
ProviderAuths == { None, "", "CHAP user secret", "CHAP user", " " }

WT_Portal == [Address |-> "10.0.0.1", Port |-> 3260, Listen |-> TRUE]

----------------------------------------------------------------------------
(* String helpers *)

\* str.find: index (from 0) of the first occurrence of pat in s, or -1
find(s, pat) ==
    LET hits == { i \in 1..(Len(s) - Len(pat) + 1) :
                    SubSeq(s, i, i + Len(pat) - 1) = pat }
    IN  IF hits = {} THEN -1
        ELSE (CHOOSE i \in hits : \A j \in hits : i <= j) - 1

\* the `in` operator on strings
contains(s, pat) == find(s, pat) # -1

RECURSIVE split_from(_, _, _)
split_from(s, i, word) ==
    IF i > Len(s)
    THEN IF word = "" THEN <<>> ELSE <<word>>
    ELSE IF SubSeq(s, i, i) = " "
         THEN IF word = "" THEN split_from(s, i + 1, "")
              ELSE <<word>> \o split_from(s, i + 1, "")
         ELSE split_from(s, i + 1, word \o SubSeq(s, i, i))

\* str.split() with no argument: the whitespace-separated fields
split(s) == split_from(s, 1, "")

\* os.path.join(dir, name) on Windows
path_join(dir, name) == dir \o "\\" \o name

----------------------------------------------------------------------------
(* Results of a method body *)

Call(api, arg1, arg2, n) == [api |-> api, arg1 |-> arg1, arg2 |-> arg2, n |-> n]

Return(st, ret, calls) ==
    [st |-> st, exc |-> NoExc, info |-> "", ret |-> ret, calls |-> calls,
     log |-> <<>>]

Raise(st, exc, info, calls) ==
    [st |-> st, exc |-> exc, info |-> info, ret |-> NoneObject, calls |-> calls,
     log |-> <<>>]

\* r2 ran after r1: the calls and the log of both
After(r1, r2) == [r2 EXCEPT !.calls = r1.calls \o @, !.log = r1.log \o @]

IgnoredTargetCreationError == "Ignored target creation error while ensuring export"
DiskNotFound == "Disk not found"

\* the text a failed backend call carries in com_error.excepinfo[2]
FileExistsInfo == "The file exists. "
GenericFailureInfo == "Generic failure "

----------------------------------------------------------------------------
(* The store *)

Store == [wt_disks |-> wt_disks, wt_hosts |-> wt_hosts,
          wt_idmethods |-> wt_idmethods, wt_snapshots |-> wt_snapshots,
          files |-> files]

EmptyFiles == [p \in {} |-> NoneObject]

\* a file written at path with the given content
WriteFile(fs, path, content) ==
    [p \in DOMAIN fs \cup {path} |-> IF p = path THEN content ELSE fs[p]]

RemoveFile(fs, path) == [p \in DOMAIN fs \ {path} |-> fs[p]]

\* what qemu-img info reports of a file
Content(fmt, backing) == [file_format |-> fmt, backing_file |-> backing]

\* instances[0] of a WMI query, the instances listed in handle order
FirstDisk(q) == CHOOSE d \in q : \A e \in q : d.WTD <= e.WTD
FirstSnapshot(q) == CHOOSE s \in q : \A e \in q : s.Id <= e.Id

WT_Disk(st, Description) == { d \in st.wt_disks : d.Description = Description }
WT_Host(st, HostName) == { h \in st.wt_hosts : h.HostName = HostName }
WT_IDMethod(st, HostName, Method, Value) ==
    { m \in st.wt_idmethods :
        m.HostName = HostName /\ m.Method = Method /\ m.Value = Value }

\* handles in use: a disk's, or one a target still lists
UsedWTDs(st) == { d.WTD : d \in st.wt_disks }
                \cup UNION { h.WTDs : h \in st.wt_hosts }
FreeWTDs(st) == (1..MaxDisks) \ UsedWTDs(st)
NewWTD(st) == CHOOSE i \in FreeWTDs(st) : \A j \in FreeWTDs(st) : i <= j

FreeSnapshotIds(st) == (1..MaxSnapshots) \ { s.Id : s \in st.wt_snapshots }
NewSnapshotId(st) ==
    CHOOSE i \in FreeSnapshotIds(st) : \A j \in FreeSnapshotIds(st) : i <= j

----------------------------------------------------------------------------
(* WindowsCommon: targets, initiators, disks, snapshots *)

\* the mapping get_host_information builds
HostProperties(host, volume) ==
    LET properties ==
            [target_discovered |-> FALSE,
             target_portal |-> WT_Portal.Address \o ":" \o ToString(WT_Portal.Port),
             target_iqn |-> host.TargetIQN,
             target_lun |-> 0,
             volume_id |-> volume.id]
        auth == volume.provider_auth
    IN  IF auth # None /\ auth # ""
        THEN [target_discovered |-> properties.target_discovered,
              target_portal |-> properties.target_portal,
              target_iqn |-> properties.target_iqn,
              target_lun |-> properties.target_lun,
              volume_id |-> properties.volume_id,
              auth_method |-> split(auth)[1],
              auth_username |-> split(auth)[2],
              auth_password |-> split(auth)[3]]
        ELSE properties

\* the body has no return statement: the mapping is built and dropped
get_host_information(st, volume, target_name) ==
    LET hosts == WT_Host(st, target_name)
        calls == <<Call("WT_Portal", "", "", 0),
                   Call("WT_Host", target_name, "", 0)>>
        auth == volume.provider_auth
    IN  IF hosts = {} THEN Raise(st, IndexError, "", calls)
        ELSE IF auth # None /\ auth # "" /\ Len(split(auth)) # 3
        THEN Raise(st, ValueError, "", calls)
        ELSE Return(st, NoneObject, calls)

associate_initiator_with_iscsi_target(st, initiator_name, target_name) ==
    LET wt_idmethod == [HostName |-> target_name, Method |-> 4,
                        Value |-> initiator_name]
    IN  Return([st EXCEPT !.wt_idmethods = @ \cup {wt_idmethod}], NoneObject,
               <<Call("WT_IDMethod.put", target_name, initiator_name, 4)>>)

\* delete_iscsi_target, were a lookup that finds nothing a no-op
delete_iscsi_target_tolerant(st, initiator_name, target_name) ==
    LET q == WT_IDMethod(st, target_name, 4, initiator_name)
        calls == <<Call("WT_IDMethod", target_name, initiator_name, 4)>>
    IN  Return([st EXCEPT !.wt_idmethods = @ \ q], NoneObject, calls)

delete_iscsi_target(st, initiator_name, target_name) ==
    LET q == WT_IDMethod(st, target_name, 4, initiator_name)
        calls == <<Call("WT_IDMethod", target_name, initiator_name, 4)>>
    IN  IF q = {} THEN Raise(st, IndexError, "", calls)
        ELSE LET wt_idmethod == CHOOSE m \in q : TRUE
             IN  Return([st EXCEPT !.wt_idmethods = @ \ {wt_idmethod}],
                        NoneObject,
                        calls \o <<Call("WT_IDMethod.Delete_", target_name,
                                        initiator_name, 4)>>)

\* fault: the backend call that fails in this run, "none" when none does
create_volume(st, vhd_path, vol_name, vol_size, fault) ==
    LET calls == <<Call("NewWTDisk", vhd_path, vol_name, vol_size * 1024)>>
        wt_disk == [WTD |-> NewWTD(st), Description |-> vol_name,
                    DevicePath |-> vhd_path, SizeInMB |-> vol_size * 1024]
    IN  IF fault = "NewWTDisk" THEN Raise(st, x_wmi, GenericFailureInfo, calls)
        ELSE Return([st EXCEPT !.wt_disks = @ \cup {wt_disk},
                               !.files = WriteFile(@, vhd_path,
                                                   Content("vpc", None))],
                    NoneObject, calls)

\* delete_volume, were the backing file indexed without the length test
delete_volume_file_required(st, vol_name, vhd_path) ==
    LET q == WT_Disk(st, vol_name)
        lookup == <<Call("WT_Disk", vol_name, "", 0)>>
    IN  IF q = {} THEN Raise(st, IndexError, "", lookup)
        ELSE LET wt_disk == FirstDisk(q)
                 st1 == [st EXCEPT !.wt_disks = @ \ {wt_disk}]
                 calls == lookup
                          \o <<Call("WT_Disk.Delete_", vol_name, "", wt_disk.WTD),
                               Call("CIM_DataFile", vhd_path, "", 0)>>
             IN  IF vhd_path \in DOMAIN st1.files
                 THEN Return([st1 EXCEPT !.files = RemoveFile(@, vhd_path)],
                             NoneObject,
                             calls \o <<Call("CIM_DataFile.Delete", vhd_path,
                                             "", 0)>>)
                 ELSE Raise(st1, IndexError, "", calls)

delete_volume(st, vol_name, vhd_path) ==
    LET q == WT_Disk(st, vol_name)
        lookup == <<Call("WT_Disk", vol_name, "", 0)>>
    IN  IF q = {} THEN Raise(st, IndexError, "", lookup)
        ELSE LET wt_disk == FirstDisk(q)
                 st1 == [st EXCEPT !.wt_disks = @ \ {wt_disk}]
                 calls == lookup
                          \o <<Call("WT_Disk.Delete_", vol_name, "", wt_disk.WTD),
                               Call("CIM_DataFile", vhd_path, "", 0)>>
             IN  IF vhd_path \in DOMAIN st1.files
                 THEN Return([st1 EXCEPT !.files = RemoveFile(@, vhd_path)],
                             NoneObject,
                             calls \o <<Call("CIM_DataFile.Delete", vhd_path,
                                             "", 0)>>)
                 ELSE Return(st1, NoneObject, calls)

\* create_snapshot, were the created snapshot not given its description
create_snapshot_untagged(st, vol_name, snapshot_name) ==
    LET q == WT_Disk(st, vol_name)
        lookup == <<Call("WT_Disk", vol_name, "", 0)>>
    IN  IF q = {} THEN Raise(st, IndexError, "", lookup)
        ELSE LET wt_disk == FirstDisk(q)
                 out == NewSnapshotId(st)
                 created == [Id |-> out, Description |-> "",
                             WTD |-> wt_disk.WTD, SizeInMB |-> wt_disk.SizeInMB]
             IN  Return([st EXCEPT !.wt_snapshots = @ \cup {created}],
                        NoneObject,
                        lookup
                        \o <<Call("WT_Snapshot.Create", "", "", wt_disk.WTD)>>)

create_snapshot(st, vol_name, snapshot_name) ==
    LET q == WT_Disk(st, vol_name)
        lookup == <<Call("WT_Disk", vol_name, "", 0)>>
    IN  IF q = {} THEN Raise(st, IndexError, "", lookup)
        ELSE LET wt_disk == FirstDisk(q)
                 out == NewSnapshotId(st)
                 created == [Id |-> out, Description |-> "",
                             WTD |-> wt_disk.WTD, SizeInMB |-> wt_disk.SizeInMB]
                 tagged == [created EXCEPT !.Description = snapshot_name]
             IN  Return([st EXCEPT !.wt_snapshots = @ \cup {tagged}],
                        NoneObject,
                        lookup
                        \o <<Call("WT_Snapshot.Create", "", "", wt_disk.WTD),
                             Call("WT_Snapshot", "", "", out),
                             Call("WT_Snapshot.put", snapshot_name, "", out)>>)

create_volume_from_snapshot(st, vol_name, snapshot_name) ==
    LET q == { s \in st.wt_snapshots : s.Description = snapshot_name }
        lookup == <<Call("WT_Snapshot", snapshot_name, "", 0)>>
    IN  IF q = {} THEN Raise(st, IndexError, "", lookup)
        ELSE LET wt_snapshot == FirstSnapshot(q)
                 disk_id == NewWTD(st)
                 wt_disk == [WTD |-> disk_id, Description |-> vol_name,
                             DevicePath |-> "",
                             SizeInMB |-> wt_snapshot.SizeInMB]
             IN  Return([st EXCEPT !.wt_disks = @ \cup {wt_disk}], NoneObject,
                        lookup
                        \o <<Call("WT_Snapshot.Export", snapshot_name, "",
                                  wt_snapshot.Id),
                             Call("WT_Disk", "", "", disk_id),
                             Call("WT_Disk.put", vol_name, "", disk_id)>>)

delete_snapshot(st, snapshot_name) ==
    LET q == { s \in st.wt_snapshots : s.Description = snapshot_name }
        lookup == <<Call("WT_Snapshot", snapshot_name, "", 0)>>
    IN  IF q = {} THEN Raise(st, IndexError, "", lookup)
        ELSE LET wt_snapshot == FirstSnapshot(q)
             IN  Return([st EXCEPT !.wt_snapshots = @ \ {wt_snapshot}],
                        NoneObject,
                        lookup \o <<Call("WT_Snapshot.Delete_", snapshot_name,
                                         "", wt_snapshot.Id)>>)

\* WT_Host.NewHost: refuses a name that is taken
NewHost(st, HostName, fault) ==
    LET calls == <<Call("NewHost", HostName, "", 0)>>
        wt_host == [HostName |-> HostName,
                    TargetIQN |-> "iqn.1991-05.com.microsoft:" \o HostName
                                  \o "-target",
                    WTDs |-> {}]
    IN  IF fault = "NewHost" THEN Raise(st, x_wmi, GenericFailureInfo, calls)
        ELSE IF WT_Host(st, HostName) # {}
        THEN Raise(st, x_wmi, FileExistsInfo, calls)
        ELSE Return([st EXCEPT !.wt_hosts = @ \cup {wt_host}], NoneObject, calls)

\* create_iscsi_target, were every failure re-raised
create_iscsi_target_strict(st, target_name, ensure, fault) ==
    NewHost(st, target_name, fault)

\* create_iscsi_target, were the failure's text not looked at
create_iscsi_target_any_failure(st, target_name, ensure, fault) ==
    LET r == NewHost(st, target_name, fault)
    IN  IF r.exc = NoExc \/ ~ensure THEN r
        ELSE [Return(r.st, NoneObject, r.calls)
                 EXCEPT !.log = <<IgnoredTargetCreationError>>]

create_iscsi_target(st, target_name, ensure, fault) ==
    LET r == NewHost(st, target_name, fault)
    IN  IF r.exc = NoExc THEN r
        ELSE LET excep_info == r.info
             IN  IF ~ensure \/ find(excep_info, "The file exists") = -1
                 THEN r
                 ELSE [Return(r.st, NoneObject, r.calls)
                          EXCEPT !.log = <<IgnoredTargetCreationError>>]

remove_iscsi_target(st, target_name) ==
    LET q == WT_Host(st, target_name)
        lookup == <<Call("WT_Host", target_name, "", 0)>>
    IN  IF q = {} THEN Raise(st, IndexError, "", lookup)
        ELSE LET wt_host == CHOOSE h \in q : TRUE
             IN  Return([st EXCEPT !.wt_hosts = @ \ {wt_host}], NoneObject,
                        lookup
                        \o <<Call("RemoveAllWTDisks", target_name, "", 0),
                             Call("WT_Host.Delete_", target_name, "", 0)>>)

\* add_disk_to_target, were the first disk taken without the length test
add_disk_to_target_unchecked(st, vol_name, target_name, fault) ==
    LET q == WT_Disk(st, vol_name)
        lookup == <<Call("WT_Disk", vol_name, "", 0)>>
    IN  IF q = {} THEN Raise(st, IndexError, "", lookup)
        ELSE LET wt_disk == FirstDisk(q)
                 hosts == WT_Host(st, target_name)
                 calls == lookup \o <<Call("WT_Host", target_name, "", 0)>>
             IN  IF hosts = {} THEN Raise(st, IndexError, "", calls)
                 ELSE LET wt_host == CHOOSE h \in hosts : TRUE
                          attached == [wt_host EXCEPT !.WTDs = @ \cup {wt_disk.WTD}]
                          calls2 == calls \o <<Call("AddWTDisk", target_name,
                                                    vol_name, wt_disk.WTD)>>
                      IN  IF fault = "AddWTDisk"
                          THEN Raise(st, x_wmi, GenericFailureInfo, calls2)
                          ELSE Return([st EXCEPT !.wt_hosts =
                                          (@ \ {wt_host}) \cup {attached}],
                                      NoneObject, calls2)

add_disk_to_target(st, vol_name, target_name, fault) ==
    LET q == WT_Disk(st, vol_name)
        lookup == <<Call("WT_Disk", vol_name, "", 0)>>
    IN  IF q = {}
        THEN [Return(st, NoneObject, lookup) EXCEPT !.log = <<DiskNotFound>>]
        ELSE LET wt_disk == FirstDisk(q)
                 hosts == WT_Host(st, target_name)
                 calls == lookup \o <<Call("WT_Host", target_name, "", 0)>>
             IN  IF hosts = {} THEN Raise(st, IndexError, "", calls)
                 ELSE LET wt_host == CHOOSE h \in hosts : TRUE
                          attached == [wt_host EXCEPT !.WTDs = @ \cup {wt_disk.WTD}]
                          calls2 == calls \o <<Call("AddWTDisk", target_name,
                                                    vol_name, wt_disk.WTD)>>
                      IN  IF fault = "AddWTDisk"
                          THEN Raise(st, x_wmi, GenericFailureInfo, calls2)
                          ELSE Return([st EXCEPT !.wt_hosts =
                                          (@ \ {wt_host}) \cup {attached}],
                                      NoneObject, calls2)

extend(st, vol_name, additional_size, fault) ==
    LET q == WT_Disk(st, vol_name)
        lookup == <<Call("WT_Disk", vol_name, "", 0)>>
    IN  IF fault = "WT_Disk"
        THEN Raise(st, x_wmi, GenericFailureInfo, lookup)
        ELSE IF q = {}
        THEN [Return(st, NoneObject, lookup) EXCEPT !.log = <<DiskNotFound>>]
        ELSE LET wt_disk == FirstDisk(q)
                 extended == [wt_disk EXCEPT !.SizeInMB = @ + additional_size]
                 calls == lookup \o <<Call("WT_Disk.Extend", vol_name, "",
                                           additional_size)>>
             IN  IF fault = "Extend"
                 THEN Raise(st, x_wmi, GenericFailureInfo, calls)
                 ELSE Return([st EXCEPT !.wt_disks =
                                 (@ \ {wt_disk}) \cup {extended}],
                             NoneObject, calls)

----------------------------------------------------------------------------
(* WindowsCommon: image conversion *)

Exception == "Exception"

\* the images the image service holds, as qemu-img info describes them
Images == { Content(fmt, backing) :
              fmt \in {None, "vpc", "raw", "qcow2"},
              backing \in {None, "base.img"} }

ImageMetas == { [id |-> "image-1", disk_format |-> f] :
                  f \in {"vhd", "raw", "qcow2"} }

\* the name image_utils.temporary_file and tempfile.mkstemp hand out
TmpPath == path_join(image_conversion_dir, "tmp0001")
\* a file just created, with nothing written to it
EmptyFile == Content("raw", None)

\* qemu-img info; of a missing file the output has no format line
qemu_img_info(st, path) ==
    IF path \in DOMAIN st.files THEN st.files[path] ELSE Content(None, None)

\* qemu-img convert; _execute ignores the exit status, so a converter that
\* fails writes nothing and nothing is raised ("convert_silent"); only a
\* process that cannot be started raises ("convert")
convert_image(st, source, dest, out_format, fault) ==
    LET calls == <<Call("qemu-img convert", source, dest, 0)>>
    IN  IF fault = "convert" THEN Raise(st, OSError, "", calls)
        ELSE IF \/ fault = "convert_silent"
                \/ source \notin DOMAIN st.files
                \/ qemu_img_info(st, source).file_format = None
        THEN Return(st, NoneObject, calls)
        ELSE Return([st EXCEPT !.files =
                        WriteFile(@, dest, Content(out_format, None))],
                    NoneObject, calls)

copy_vhd_disk(st, source_path, destination_path) ==
    LET query == <<Call("CIM_DataFile", source_path, "", 0)>>
    IN  IF source_path \in DOMAIN st.files
        THEN Return([st EXCEPT !.files =
                        WriteFile(@, destination_path, @[source_path])],
                    NoneObject,
                    query \o <<Call("CIM_DataFile.Copy", source_path,
                                    destination_path, 0)>>)
        ELSE Return(st, NoneObject, query)

\* image_utils.temporary_file: the file is deleted when the block is left
LeaveTemporaryFile(r, tmp) == [r EXCEPT !.st.files = RemoveFile(@, tmp)]

\* fileutils.remove_path_on_error: the file is deleted when the block raises
LeaveRemovePathOnError(r, tmp) ==
    IF r.exc = NoExc THEN r ELSE [r EXCEPT !.st.files = RemoveFile(@, tmp)]

\* fetch_to_vhd, were the backing file not looked at
fetch_to_vhd_body_any_backing(st, image, image_id, dest, tmp, fault) ==
    LET fetch == <<Call("image_utils.fetch", image_id, tmp, 0)>>
        st1 == [st EXCEPT !.files = WriteFile(@, tmp, image)]
        fmt == qemu_img_info(st1, tmp).file_format
        probe == fetch \o <<Call("qemu-img info", tmp, "", 0)>>
    IN  IF fault = "fetch" THEN Raise(st, Exception, "", fetch)
        ELSE IF fmt = None
        THEN Raise(st1, ImageUnacceptable, "'qemu-img info' parsing failed.",
                   probe)
        ELSE LET r == IF ~contains(fmt, "vpc")
                      THEN convert_image(st1, tmp, dest, "vpc", fault)
                      ELSE copy_vhd_disk(st1, tmp, dest)
                 calls == probe \o r.calls
                          \o <<Call("qemu-img info", dest, "", 0)>>
             IN  IF r.exc # NoExc
                 THEN Raise(r.st, r.exc, r.info, probe \o r.calls)
                 ELSE IF qemu_img_info(r.st, dest).file_format # "vpc"
                 THEN Raise(r.st, ImageUnacceptable, "", calls)
                 ELSE Return(r.st, NoneObject, calls)

\* fetch_to_vhd, were the destination not probed again
fetch_to_vhd_body_no_reprobe(st, image, image_id, dest, tmp, fault) ==
    LET fetch == <<Call("image_utils.fetch", image_id, tmp, 0)>>
        st1 == [st EXCEPT !.files = WriteFile(@, tmp, image)]
        data == qemu_img_info(st1, tmp)
        fmt == data.file_format
        probe == fetch \o <<Call("qemu-img info", tmp, "", 0)>>
    IN  IF fault = "fetch" THEN Raise(st, Exception, "", fetch)
        ELSE IF fmt = None \/ data.backing_file # None
        THEN Raise(st1, ImageUnacceptable, "", probe)
        ELSE LET r == IF ~contains(fmt, "vpc")
                      THEN convert_image(st1, tmp, dest, "vpc", fault)
                      ELSE copy_vhd_disk(st1, tmp, dest)
             IN  IF r.exc # NoExc
                 THEN Raise(r.st, r.exc, r.info, probe \o r.calls)
                 ELSE Return(r.st, NoneObject, probe \o r.calls)

\* lines 200-232, inside the temporary_file block
fetch_to_vhd_body(st, image, image_id, dest, tmp, fault) ==
    LET fetch == <<Call("image_utils.fetch", image_id, tmp, 0)>>
        st1 == [st EXCEPT !.files = WriteFile(@, tmp, image)]
        data == qemu_img_info(st1, tmp)
        fmt == data.file_format
        backing_file == data.backing_file
        probe == fetch \o <<Call("qemu-img info", tmp, "", 0)>>
    IN  IF fault = "fetch" THEN Raise(st, Exception, "", fetch)
        ELSE IF fmt = None
        THEN Raise(st1, ImageUnacceptable, "'qemu-img info' parsing failed.",
                   probe)
        ELSE IF backing_file # None
        THEN Raise(st1, ImageUnacceptable,
                   "fmt=" \o fmt \o " backed by:" \o backing_file, probe)
        ELSE LET r == IF ~contains(fmt, "vpc")
                      THEN convert_image(st1, tmp, dest, "vpc", fault)
                      ELSE copy_vhd_disk(st1, tmp, dest)
                 calls == probe \o r.calls
                          \o <<Call("qemu-img info", dest, "", 0)>>
             IN  IF r.exc # NoExc
                 THEN Raise(r.st, r.exc, r.info, probe \o r.calls)
                 ELSE IF qemu_img_info(r.st, dest).file_format # "vpc"
                 THEN Raise(r.st, ImageUnacceptable,
                            "Converted to vhd, but format is now "
                            \o qemu_img_info(r.st, dest).file_format, calls)
                 ELSE Return(r.st, NoneObject, calls)

fetch_to_vhd(st, image, image_id, dest, fault) ==
    LET tmp == TmpPath
        st0 == [st EXCEPT !.files = WriteFile(@, tmp, EmptyFile)]
    IN  LeaveTemporaryFile(
            fetch_to_vhd_body(st0, image, image_id, dest, tmp, fault), tmp)

\* lines 255-270, inside the remove_path_on_error block
upload_volume_body(st, image_meta, temp_vhd_path, tmp, fault) ==
    LET image_id == image_meta.id
        r == convert_image(st, temp_vhd_path, tmp, image_meta.disk_format, fault)
        data == qemu_img_info(r.st, tmp)
        probe == r.calls \o <<Call("qemu-img info", tmp, "", 0)>>
        update == probe \o <<Call("image_service.update", image_id, tmp, 0)>>
    IN  IF r.exc # NoExc THEN r
        ELSE IF data.file_format # image_meta.disk_format
        THEN Raise(r.st, ImageUnacceptable,
                   "Converted to " \o image_meta.disk_format
                   \o ", but format is now " \o data.file_format, probe)
        ELSE IF fault = "update" THEN Raise(r.st, Exception, "", update)
        ELSE Return([r.st EXCEPT !.files = RemoveFile(@, tmp)], NoneObject,
                    update \o <<Call("os.unlink", tmp, "", 0)>>)

upload_volume(st, image_meta, volume_path, fault) ==
    LET image_id == image_meta.id
        update == <<Call("image_service.update", image_id, volume_path, 0)>>
        temp_vhd_path == path_join(image_conversion_dir, image_id \o ".vhd")
        r1 == copy_vhd_disk(st, volume_path, temp_vhd_path)
        tmp == TmpPath
        st2 == [r1.st EXCEPT !.files = WriteFile(@, tmp, EmptyFile)]
        r2 == LeaveRemovePathOnError(
                  upload_volume_body(st2, image_meta, temp_vhd_path, tmp, fault),
                  tmp)
    IN  IF image_meta.disk_format = "vhd"
        THEN IF volume_path \notin DOMAIN st.files
             THEN Raise(st, IOError, "", <<>>)
             ELSE IF fault = "update" THEN Raise(st, Exception, "", update)
             ELSE Return(st, NoneObject, update)
        ELSE After(r1, r2)

----------------------------------------------------------------------------
(* WindowsDriver *)

local_path(volume) ==
    path_join(windows_iscsi_lun_path, volume.name \o ".vhd")

\* the arguments are passed in the order (target_name, initiator_name)
initialize_connection(st, volume, connector) ==
    LET initiator_name == connector.initiator
        target_name == volume.provider_location
        r1 == associate_initiator_with_iscsi_target(st, target_name,
                                                    initiator_name)
        r2 == get_host_information(r1.st, volume, target_name)
    IN  IF r1.exc # NoExc THEN r1
        ELSE IF r2.exc # NoExc THEN After(r1, r2)
        ELSE After(r1, [r2 EXCEPT !.ret = [driver_volume_type |-> "iscsi",
                                           data |-> r2.ret]])

terminate_connection(st, volume, connector) ==
    LET initiator_name == connector.initiator
        target_name == volume.provider_location
    IN  delete_iscsi_target(st, initiator_name, target_name)

driver_create_volume(st, volume, fault) ==
    create_volume(st, local_path(volume), volume.name, volume.size, fault)

driver_delete_volume(st, volume) ==
    delete_volume(st, volume.name, local_path(volume))

driver_create_snapshot(st, snapshot) ==
    create_snapshot(st, snapshot.volume_name, snapshot.name)

driver_create_volume_from_snapshot(st, volume, snapshot) ==
    create_volume_from_snapshot(st, volume.name, snapshot.name)

driver_delete_snapshot(st, snapshot) ==
    delete_snapshot(st, snapshot.name)

\* _do_export, were the target removed again when the attach step fails
do_export_rollback(st, volume, ensure, fault) ==
    LET target_name == iscsi_target_prefix \o volume.name
        r1 == create_iscsi_target(st, target_name, ensure, fault)
        vol_name == volume.name
        r2 == add_disk_to_target(r1.st, vol_name, target_name, fault)
    IN  IF r1.exc # NoExc THEN r1
        ELSE IF r2.exc # NoExc
        THEN After(r1, [r2 EXCEPT !.st = remove_iscsi_target(r1.st,
                                                              target_name).st])
        ELSE After(r1, [r2 EXCEPT !.ret = target_name])

do_export(st, volume, ensure, fault) ==
    LET target_name == iscsi_target_prefix \o volume.name
        r1 == create_iscsi_target(st, target_name, ensure, fault)
        vol_name == volume.name
        r2 == add_disk_to_target(r1.st, vol_name, target_name, fault)
    IN  IF r1.exc # NoExc THEN r1
        ELSE IF r2.exc # NoExc THEN After(r1, r2)
        ELSE After(r1, [r2 EXCEPT !.ret = target_name])

ensure_export(st, volume, fault) ==
    LET r == do_export(st, volume, TRUE, fault)
    IN  IF r.exc # NoExc THEN r ELSE [r EXCEPT !.ret = NoneObject]

create_export(st, volume, fault) ==
    LET r == do_export(st, volume, FALSE, fault)
    IN  IF r.exc # NoExc THEN r
        ELSE [r EXCEPT !.ret = [provider_location |-> r.ret]]

\* remove_export, were the target addressed by the bare volume name
remove_export_bare_name(st, volume) ==
    LET target_name == volume.name
    IN  remove_iscsi_target(st, target_name)

remove_export(st, volume) ==
    LET target_name == iscsi_target_prefix \o volume.name
    IN  remove_iscsi_target(st, target_name)

copy_image_to_volume(st, volume, image, image_id, fault) ==
    fetch_to_vhd(st, image, image_id, local_path(volume), fault)

copy_volume_to_image(st, volume, image_meta, fault) ==
    upload_volume(st, image_meta, local_path(volume), fault)

\* create_cloned_volume, were the file copied before the volume is created
create_cloned_volume_copy_first(st, volume, src_vref, fault) ==
    LET r1 == copy_vhd_disk(st, local_path(src_vref), local_path(volume))
        r2 == driver_create_volume(r1.st, volume, fault)
    IN  After(r1, r2)

create_cloned_volume(st, volume, src_vref, fault) ==
    LET r1 == driver_create_volume(st, volume, fault)
        r2 == copy_vhd_disk(r1.st, local_path(src_vref), local_path(volume))
    IN  IF r1.exc # NoExc THEN r1
        ELSE After(r1, r2)

\* extend_volume, were the old size not subtracted
extend_volume_absolute(st, volume, new_size, fault) ==
    LET additional_size == new_size * 1024
        r == extend(st, volume.name, additional_size, fault)
        msg == "Failed to Extend Volume " \o volume.name
    IN  IF r.exc # NoExc
        THEN [Raise(r.st, VolumeBackendAPIException, msg, r.calls)
                 EXCEPT !.log = r.log \o <<msg>>]
        ELSE [r EXCEPT !.log = @ \o <<"Extend volume">>]

\* extend_volume, were the failure of the extend not caught
extend_volume_uncaught(st, volume, new_size, fault) ==
    LET old_size == volume.size
        additional_size == (new_size - old_size) * 1024
        r == extend(st, volume.name, additional_size, fault)
    IN  IF r.exc # NoExc THEN r
        ELSE [r EXCEPT !.log = @ \o <<"Extend volume">>]

extend_volume(st, volume, new_size, fault) ==
    LET old_size == volume.size
        additional_size == (new_size - old_size) * 1024
        r == extend(st, volume.name, additional_size, fault)
        msg == "Failed to Extend Volume " \o volume.name
    IN  IF r.exc # NoExc
        THEN [Raise(r.st, VolumeBackendAPIException, msg, r.calls)
                 EXCEPT !.log = r.log \o <<msg>>]
        ELSE [r EXCEPT !.log = @ \o <<"Extend volume">>]

----------------------------------------------------------------------------
(* The state machine: one action per driver entry point *)

NoArgs == [volume |-> None]

Init ==
    /\ wt_disks = {}
    /\ wt_hosts = {}
    /\ wt_idmethods = {}
    /\ wt_snapshots = {}
    /\ files = EmptyFiles
    /\ provider_location = [n \in VolNames |-> None]
    /\ last = [op |-> "init", args |-> NoArgs, fault |-> "none", exc |-> NoExc,
               info |-> "", ret |-> NoneObject, calls |-> <<>>, log |-> <<>>]

\* the volume record the volume manager passes: the stored row
VolumeRecord(v, auth) ==
    [name |-> v.name, id |-> v.id, size |-> v.size,
     provider_location |-> provider_location[v.name], provider_auth |-> auth]

\* the entry point has run: the store is as it left it, last is its outcome
Commit(op, args, fault, r) ==
    /\ wt_disks' = r.st.wt_disks
    /\ wt_hosts' = r.st.wt_hosts
    /\ wt_idmethods' = r.st.wt_idmethods
    /\ wt_snapshots' = r.st.wt_snapshots
    /\ files' = r.st.files
    /\ last' = [op |-> op, args |-> args, fault |-> fault, exc |-> r.exc,
                info |-> r.info, ret |-> r.ret, calls |-> r.calls,
                log |-> r.log]

CreateVolume ==
    \E v \in Volumes, fault \in {"none", "NewWTDisk"} :
        /\ FreeWTDs(Store) # {}
        /\ Commit("create_volume", [volume |-> v.name], fault,
                  driver_create_volume(Store, VolumeRecord(v, None), fault))
        /\ UNCHANGED provider_location

DeleteVolume ==
    \E v \in Volumes :
        /\ Commit("delete_volume", [volume |-> v.name], "none",
                  driver_delete_volume(Store, VolumeRecord(v, None)))
        /\ UNCHANGED provider_location

CreateSnapshot ==
    \E s \in Snapshots :
        /\ FreeSnapshotIds(Store) # {}
        /\ Commit("create_snapshot",
                  [volume |-> s.volume_name, snapshot |-> s.name], "none",
                  driver_create_snapshot(Store, s))
        /\ UNCHANGED provider_location

CreateVolumeFromSnapshot ==
    \E v \in Volumes, s \in Snapshots :
        /\ FreeWTDs(Store) # {}
        /\ Commit("create_volume_from_snapshot",
                  [volume |-> v.name, snapshot |-> s.name], "none",
                  driver_create_volume_from_snapshot(Store,
                                                     VolumeRecord(v, None), s))
        /\ UNCHANGED provider_location

DeleteSnapshot ==
    \E s \in Snapshots :
        /\ Commit("delete_snapshot",
                  [volume |-> s.volume_name, snapshot |-> s.name], "none",
                  driver_delete_snapshot(Store, s))
        /\ UNCHANGED provider_location

\* the volume manager stores the returned provider_location in the row
CreateExport ==
    \E v \in Volumes, fault \in {"none", "NewHost", "AddWTDisk"} :
        LET r == create_export(Store, VolumeRecord(v, None), fault)
        IN  /\ Commit("create_export", [volume |-> v.name], fault, r)
            /\ provider_location' =
                   IF r.exc = NoExc
                   THEN [provider_location EXCEPT
                            ![v.name] = r.ret.provider_location]
                   ELSE provider_location

EnsureExport ==
    \E v \in Volumes, fault \in {"none", "NewHost", "AddWTDisk"} :
        /\ Commit("ensure_export", [volume |-> v.name], fault,
                  ensure_export(Store, VolumeRecord(v, None), fault))
        /\ UNCHANGED provider_location

RemoveExport ==
    \E v \in Volumes :
        /\ Commit("remove_export", [volume |-> v.name], "none",
                  remove_export(Store, VolumeRecord(v, None)))
        /\ UNCHANGED provider_location

\* called for exported volumes: provider_location is set
InitializeConnection ==
    \E v \in Volumes, c \in Connectors, auth \in ProviderAuths :
        /\ provider_location[v.name] # None
        /\ Commit("initialize_connection",
                  [volume |-> v.name, initiator |-> c.initiator,
                   provider_auth |-> auth], "none",
                  initialize_connection(Store, VolumeRecord(v, auth), c))
        /\ UNCHANGED provider_location

TerminateConnection ==
    \E v \in Volumes, c \in Connectors :
        /\ provider_location[v.name] # None
        /\ Commit("terminate_connection",
                  [volume |-> v.name, initiator |-> c.initiator], "none",
                  terminate_connection(Store, VolumeRecord(v, None), c))
        /\ UNCHANGED provider_location

CopyImageToVolume ==
    \E v \in Volumes, image \in Images,
       fault \in {"none", "fetch", "convert", "convert_silent"} :
        /\ Commit("copy_image_to_volume",
                  [volume |-> v.name, image |-> image], fault,
                  copy_image_to_volume(Store, VolumeRecord(v, None), image,
                                       "image-1", fault))
        /\ UNCHANGED provider_location

CopyVolumeToImage ==
    \E v \in Volumes, image_meta \in ImageMetas,
       fault \in {"none", "convert", "convert_silent", "update"} :
        /\ Commit("copy_volume_to_image",
                  [volume |-> v.name, image_meta |-> image_meta], fault,
                  copy_volume_to_image(Store, VolumeRecord(v, None),
                                       image_meta, fault))
        /\ UNCHANGED provider_location

CreateClonedVolume ==
    \E v \in Volumes, src_vref \in Volumes, fault \in {"none", "NewWTDisk"} :
        /\ v.name # src_vref.name
        /\ FreeWTDs(Store) # {}
        /\ Commit("create_cloned_volume",
                  [volume |-> v.name, src_vref |-> src_vref.name], fault,
                  create_cloned_volume(Store, VolumeRecord(v, None),
                                       VolumeRecord(src_vref, None), fault))
        /\ UNCHANGED provider_location

\* any size may be requested; the guard keeps the disk within MaxSizeGB
ExtendVolume ==
    \E v \in Volumes, new_size \in 1..MaxSizeGB,
       fault \in {"none", "WT_Disk", "Extend"} :
        /\ \A d \in WT_Disk(Store, v.name) :
              d.SizeInMB + (new_size - v.size) * 1024 \in 0..(MaxSizeGB * 1024)
        /\ Commit("extend_volume", [volume |-> v.name, new_size |-> new_size],
                  fault, extend_volume(Store, VolumeRecord(v, None), new_size,
                                       fault))
        /\ UNCHANGED provider_location

\* volumes, snapshots and clones
NextVolume ==
    \/ CreateVolume
    \/ DeleteVolume
    \/ CreateSnapshot
    \/ CreateVolumeFromSnapshot
    \/ DeleteSnapshot
    \/ CreateClonedVolume

\* exports and connections of the volumes
NextExport ==
    \/ CreateVolume
    \/ DeleteVolume
    \/ CreateExport
    \/ EnsureExport
    \/ RemoveExport
    \/ InitializeConnection
    \/ TerminateConnection

\* images copied to and from the volumes
NextImage ==
    \/ CreateVolume
    \/ DeleteVolume
    \/ CopyImageToVolume
    \/ CopyVolumeToImage

\* volumes created, extended and deleted
NextExtend ==
    \/ CreateVolume
    \/ DeleteVolume
    \/ ExtendVolume

Next == NextVolume \/ NextExport \/ NextImage \/ NextExtend

Spec == Init /\ [][Next]_vars
SpecVolume == Init /\ [][NextVolume]_vars
SpecExport == Init /\ [][NextExport]_vars
SpecImage == Init /\ [][NextImage]_vars
SpecExtend == Init /\ [][NextExtend]_vars

----------------------------------------------------------------------------
(* Properties: exports and connections (SpecExport) *)

HasCall(calls, api) == \E i \in DOMAIN calls : calls[i].api = api
CallsOf(calls, api) == { i \in DOMAIN calls : calls[i].api = api }
Logged(log, msg) == \E i \in DOMAIN log : log[i] = msg

TargetOf(vol_name) == iscsi_target_prefix \o vol_name
VolumeNamed(vol_name) == CHOOSE v \in Volumes : v.name = vol_name

\* C1: initialize_connection(volume, connector) followed by
\* terminate_connection(volume, connector) binds and then unbinds the same
\* (target, initiator) pair: terminate_connection succeeds and no
\* identification entry relating the two remains.
C1_BindThenUnbindSamePair ==
    [][ ( /\ last.op = "initialize_connection"
          /\ last.exc = NoExc
          /\ last'.op = "terminate_connection"
          /\ last'.args.volume = last.args.volume
          /\ last'.args.initiator = last.args.initiator )
        => /\ last'.exc = NoExc
           /\ ~ \E m \in wt_idmethods' :
                  {m.HostName, m.Value}
                  = {provider_location[last.args.volume], last.args.initiator}
      ]_vars

\* C2: whenever initialize_connection returns normally its result is
\* {driver_volume_type: 'iscsi', data: D}, D holding target_discovered =
\* false, target_portal = address:port, target_iqn, target_lun = 0 and
\* volume_id, and the three auth fields exactly when provider_auth is a
\* non-empty three-field string.
C2_ConnectionInfoPayload ==
    (last.op = "initialize_connection" /\ last.exc = NoExc)
    => LET volume == CHOOSE v \in Volumes : v.name = last.args.volume
           host == CHOOSE h \in wt_hosts :
                       h.HostName = provider_location[volume.name]
           auth == last.args.provider_auth
           D == [target_discovered |-> FALSE,
                 target_portal |-> "10.0.0.1:3260",
                 target_iqn |-> host.TargetIQN,
                 target_lun |-> 0,
                 volume_id |-> volume.id]
           DAuth == [target_discovered |-> FALSE,
                     target_portal |-> "10.0.0.1:3260",
                     target_iqn |-> host.TargetIQN,
                     target_lun |-> 0,
                     volume_id |-> volume.id,
                     auth_method |-> "CHAP",
                     auth_username |-> "user",
                     auth_password |-> "secret"]
       IN  /\ last.ret.driver_volume_type = "iscsi"
           /\ last.ret.data = IF auth = "CHAP user secret" THEN DAuth ELSE D

\* C3: over an existing export of a volume whose disk exists, ensure_export
\* returns normally (the 'already exists' failure of the target creation is
\* swallowed), still attaches the disk to target prefix+name, and exactly one
\* target of that name exists afterwards.
C3_EnsureExportIdempotent ==
    [][ ( /\ last'.op = "ensure_export"
          /\ last'.fault = "none"
          /\ WT_Host(Store, TargetOf(last'.args.volume)) # {}
          /\ WT_Disk(Store, last'.args.volume) # {} )
        => /\ last'.exc = NoExc
           /\ Logged(last'.log, IgnoredTargetCreationError)
           /\ \E i \in CallsOf(last'.calls, "AddWTDisk") :
                 /\ last'.calls[i].arg1 = TargetOf(last'.args.volume)
                 /\ last'.calls[i].arg2 = last'.args.volume
           /\ Cardinality({ h \in wt_hosts' :
                              h.HostName = TargetOf(last'.args.volume) }) = 1
           /\ \E h \in wt_hosts' :
                 /\ h.HostName = TargetOf(last'.args.volume)
                 /\ FirstDisk(WT_Disk(Store, last'.args.volume)).WTD \in h.WTDs
      ]_vars

C3_Witness ==
    /\ last.op = "ensure_export"
    /\ last.exc = NoExc
    /\ Logged(last.log, IgnoredTargetCreationError)
    /\ HasCall(last.calls, "AddWTDisk")

\* C4: create_iscsi_target swallows a failure of the target creation if and
\* only if ensure is true and the failure is 'already exists'; every other
\* failure propagates, so create_export of an exported volume fails and
\* does not reach the disk-attach step.
C4_SwallowOnlyAlreadyExistsOnEnsure ==
    [][ (last'.op \in {"create_export", "ensure_export"})
        => LET ensure == last'.op = "ensure_export"
               exists == WT_Host(Store, TargetOf(last'.args.volume)) # {}
               other == last'.fault = "NewHost"
               swallowed == Logged(last'.log, IgnoredTargetCreationError)
               propagated == /\ last'.exc = x_wmi
                             /\ last'.calls
                                = <<Call("NewHost",
                                         TargetOf(last'.args.volume), "", 0)>>
                             /\ wt_hosts' = wt_hosts
           IN  /\ swallowed <=> (ensure /\ exists /\ ~other)
               /\ (other \/ (exists /\ ~ensure)) => propagated
               /\ swallowed => HasCall(last'.calls, "WT_Disk")
      ]_vars

C4_Witness ==
    /\ last.op = "create_export"
    /\ last.exc = x_wmi
    /\ last.info = FileExistsInfo
    /\ ~HasCall(last.calls, "AddWTDisk")
    /\ provider_location[last.args.volume] = TargetOf(last.args.volume)

\* C6: terminate_connection with no identification entry matching exactly
\* (HostName = provider_location, Method = 4, Value = initiator) fails with
\* the not-found error and leaves entries, targets and disks unchanged.
C6_TerminateWithoutBindingFails ==
    [][ ( /\ last'.op = "terminate_connection"
          /\ ~ \E m \in wt_idmethods :
                 /\ m.HostName = provider_location[last'.args.volume]
                 /\ m.Method = 4
                 /\ m.Value = last'.args.initiator )
        => /\ last'.exc = IndexError
           /\ wt_idmethods' = wt_idmethods
           /\ wt_hosts' = wt_hosts
           /\ wt_disks' = wt_disks
      ]_vars

C6_Witness ==
    /\ last.op = "terminate_connection"
    /\ last.exc = IndexError
    /\ wt_idmethods # {}
    /\ wt_hosts # {}

\* C13: a successful create_export returns provider_location = prefix +
\* volume name and leaves disks and files as they were; a remove_export of the
\* same volume that follows it succeeds, detaches all disks of the target of
\* that name and then deletes it, so that no target of that name remains, and
\* leaves disks and files as they were; delete_volume makes no call on a
\* target and leaves the targets as they were.
C13_TargetLifecycleIndependent ==
    [][ /\ (last'.op = "create_export" /\ last'.exc = NoExc)
           => /\ last'.ret = [provider_location |-> TargetOf(last'.args.volume)]
              /\ WT_Host(Store', TargetOf(last'.args.volume)) # {}
              /\ wt_disks' = wt_disks
              /\ files' = files
        /\ ( /\ last.op = "create_export"
             /\ last.exc = NoExc
             /\ last'.op = "remove_export"
             /\ last'.args.volume = last.args.volume )
           => LET target_name == last.ret.provider_location
              IN  /\ last'.exc = NoExc
                  /\ last'.calls = <<Call("WT_Host", target_name, "", 0),
                                     Call("RemoveAllWTDisks", target_name, "", 0),
                                     Call("WT_Host.Delete_", target_name, "", 0)>>
                  /\ WT_Host(Store', target_name) = {}
                  /\ wt_hosts' \subseteq wt_hosts
                  /\ wt_disks' = wt_disks
                  /\ files' = files
        /\ (last'.op = "delete_volume")
           => /\ wt_hosts' = wt_hosts
              /\ wt_idmethods' = wt_idmethods
              /\ \A i \in DOMAIN last'.calls :
                    last'.calls[i].api \in {"WT_Disk", "WT_Disk.Delete_",
                                            "CIM_DataFile", "CIM_DataFile.Delete"}
      ]_vars

\* an exported volume with a disk and a backing file had its export removed:
\* the target is gone, the disk and the file are still there
C13_Witness ==
    /\ last.op = "remove_export"
    /\ last.exc = NoExc
    /\ WT_Host(Store, TargetOf(last.args.volume)) = {}
    /\ provider_location[last.args.volume] = TargetOf(last.args.volume)
    /\ WT_Disk(Store, last.args.volume) # {}
    /\ local_path(VolumeNamed(last.args.volume)) \in DOMAIN files

\* C16: when no disk is described by the volume name and the target creation
\* step passes (the backend accepts the new target; for create_export no
\* target of that name exists yet), create_export and ensure_export return
\* normally: the missing disk is logged, nothing is attached, no disk is
\* created, the target exists afterwards, a target created by the operation
\* has no disk attached, and create_export returns
\* provider_location = prefix + volume name.
C16_AttachToleratesMissingDisk ==
    [][ ( /\ last'.op \in {"create_export", "ensure_export"}
          /\ WT_Disk(Store, last'.args.volume) = {}
          /\ last'.fault # "NewHost"
          /\ last'.op = "create_export"
             => WT_Host(Store, TargetOf(last'.args.volume)) = {} )
        => LET target_name == TargetOf(last'.args.volume)
           IN  /\ last'.exc = NoExc
               /\ Logged(last'.log, DiskNotFound)
               /\ ~HasCall(last'.calls, "AddWTDisk")
               /\ wt_disks' = wt_disks
               /\ files' = files
               /\ WT_Host(Store', target_name) # {}
               /\ \A h \in wt_hosts' \ wt_hosts :
                     h.HostName = target_name /\ h.WTDs = {}
               /\ wt_hosts \subseteq wt_hosts'
               /\ (last'.op = "create_export")
                  => last'.ret = [provider_location |-> target_name]
      ]_vars

\* a volume without a disk was exported: its target exists, nothing attached
C16_Witness ==
    /\ last.op = "create_export"
    /\ last.exc = NoExc
    /\ Logged(last.log, DiskNotFound)
    /\ WT_Disk(Store, last.args.volume) = {}
    /\ \E h \in WT_Host(Store, TargetOf(last.args.volume)) : h.WTDs = {}

\* C17: _do_export creates the target before it attaches the disk and rolls
\* nothing back: when the attach call raises in a create_export that created
\* the target, create_export raises and the new target stays; a create_export
\* of the same volume that follows fails at the target creation with 'already
\* exists', while an ensure_export that follows goes on to the attach step.
C17_ExportNotAtomic ==
    [][ /\ ( /\ last'.op = "create_export"
             /\ last'.fault = "AddWTDisk"
             /\ WT_Disk(Store, last'.args.volume) # {}
             /\ WT_Host(Store, TargetOf(last'.args.volume)) = {} )
           => LET target_name == TargetOf(last'.args.volume)
              IN  /\ last'.exc = x_wmi
                  /\ Len(last'.calls) = 4
                  /\ last'.calls[1] = Call("NewHost", target_name, "", 0)
                  /\ last'.calls[4].api = "AddWTDisk"
                  /\ \E h \in WT_Host(Store', target_name) :
                        /\ h.WTDs = {}
                        /\ wt_hosts' = wt_hosts \cup {h}
                  /\ provider_location' = provider_location
        /\ ( /\ last.op = "create_export"
             /\ last.exc = x_wmi
             /\ HasCall(last.calls, "AddWTDisk")
             /\ last'.args.volume = last.args.volume )
           => LET target_name == TargetOf(last.args.volume)
              IN  /\ (last'.op = "create_export")
                     => /\ last'.exc = x_wmi
                        /\ last'.calls = <<Call("NewHost", target_name, "", 0)>>
                        /\ last'.fault # "NewHost"
                           => contains(last'.info, "The file exists")
                        /\ Store' = Store
                  /\ (last'.op = "ensure_export" /\ last'.fault # "NewHost")
                     => /\ Logged(last'.log, IgnoredTargetCreationError)
                        /\ HasCall(last'.calls, "AddWTDisk")
                        /\ (last'.fault = "none")
                           => /\ last'.exc = NoExc
                              /\ \E h \in WT_Host(Store', target_name) :
                                    h.WTDs # {}
      ]_vars

\* the attach call of a create_export raised and the target it created stayed
C17_Witness ==
    /\ last.op = "create_export"
    /\ last.exc = x_wmi
    /\ last.fault = "AddWTDisk"
    /\ HasCall(last.calls, "AddWTDisk")
    /\ last.calls[1].api = "NewHost"
    /\ \E h \in WT_Host(Store, TargetOf(last.args.volume)) : h.WTDs = {}
    /\ provider_location[last.args.volume] = None

----------------------------------------------------------------------------
(* Properties: volumes, snapshots and clones (SpecVolume) *)

\* C5: delete_volume succeeds if and only if a disk whose description is the
\* volume name exists: then one such disk is deleted, and the backing file
\* <root>/<name>.vhd is deleted when present and its absence tolerated;
\* otherwise the not-found error is raised and the files are untouched.
C5_DeleteVolume ==
    [][ (last'.op = "delete_volume")
        => LET q == WT_Disk(Store, last'.args.volume)
               vhd_path == local_path(VolumeNamed(last'.args.volume))
           IN  IF q # {}
               THEN /\ last'.exc = NoExc
                    /\ wt_disks' \subseteq wt_disks
                    /\ (wt_disks \ wt_disks') \subseteq q
                    /\ Cardinality(wt_disks \ wt_disks') = 1
                    /\ vhd_path \notin DOMAIN files'
                    /\ DOMAIN files' = DOMAIN files \ {vhd_path}
                    /\ \A p \in DOMAIN files' : files'[p] = files[p]
               ELSE /\ last'.exc = IndexError
                    /\ wt_disks' = wt_disks
                    /\ files' = files
      ]_vars

\* a volume whose disk exists and whose backing file does not was deleted
C5_Witness ==
    /\ last.op = "delete_volume"
    /\ last.exc = NoExc
    /\ HasCall(last.calls, "WT_Disk.Delete_")
    /\ ~HasCall(last.calls, "CIM_DataFile.Delete")

\* C10: create_cloned_volume(volume, src_vref) first creates the new
\* volume's disk (description = new name, file <root>/<new name>.vhd) and
\* only afterwards copies <root>/<src name>.vhd onto <root>/<new name>.vhd,
\* once; the copy never precedes the create, and if the create fails no copy
\* is attempted.
C10_CloneCreatesThenCopies ==
    (last.op = "create_cloned_volume")
    => LET volume == VolumeNamed(last.args.volume)
           src_vref == VolumeNamed(last.args.src_vref)
           calls == last.calls
           create == Call("NewWTDisk", local_path(volume), volume.name,
                          volume.size * 1024)
           query == Call("CIM_DataFile", local_path(src_vref), "", 0)
           copy == Call("CIM_DataFile.Copy", local_path(src_vref),
                        local_path(volume), 0)
       IN  /\ Len(calls) >= 1
           /\ calls[1] = create
           /\ Cardinality(CallsOf(calls, "NewWTDisk")) = 1
           /\ last.exc # NoExc => calls = <<create>>
           /\ last.exc = NoExc
              => /\ calls[2] = query
                 /\ IF local_path(src_vref) \in DOMAIN files
                    THEN /\ calls = <<create, query, copy>>
                         /\ files[local_path(volume)]
                            = files[local_path(src_vref)]
                    ELSE calls = <<create, query>>
                 /\ \E d \in wt_disks :
                       /\ d.Description = volume.name
                       /\ d.DevicePath = local_path(volume)

C10_Witness ==
    /\ last.op = "create_cloned_volume"
    /\ last.exc = NoExc
    /\ Len(last.calls) = 3
    /\ last.calls[3].api = "CIM_DataFile.Copy"

\* C11: extend_volume(volume, new_size) invokes the extend primitive at most
\* once, on the disk described by the volume name, with the argument
\* (new_size - old size) * 1024, and a successful extend grows that disk by
\* exactly that much; create_volume creates the disk with
\* SizeInMB = size * 1024 at the path <root>\<name>.vhd.
C11_SizeArithmetic ==
    [][ /\ (last'.op = "extend_volume")
           => LET v == VolumeNamed(last'.args.volume)
                  q == WT_Disk(Store, v.name)
                  delta == (last'.args.new_size - v.size) * 1024
                  ext == CallsOf(last'.calls, "WT_Disk.Extend")
              IN  /\ Cardinality(ext) <= 1
                  /\ Cardinality(ext) = 1
                        <=> (q # {} /\ last'.fault # "WT_Disk")
                  /\ \A i \in ext : /\ last'.calls[i].arg1 = v.name
                                    /\ last'.calls[i].n = delta
                  /\ (q # {} /\ last'.exc = NoExc)
                     => wt_disks' = (wt_disks \ {FirstDisk(q)}) \cup
                           {[FirstDisk(q) EXCEPT !.SizeInMB = @ + delta]}
        /\ (last'.op = "create_volume")
           => LET v == VolumeNamed(last'.args.volume)
                  vhd_path == windows_iscsi_lun_path \o "\\" \o v.name \o ".vhd"
              IN  /\ last'.calls =
                        <<Call("NewWTDisk", vhd_path, v.name, v.size * 1024)>>
                  /\ last'.exc = NoExc
                     => \E d \in wt_disks' \ wt_disks :
                          /\ wt_disks' = wt_disks \cup {d}
                          /\ d.Description = v.name
                          /\ d.DevicePath = vhd_path
                          /\ d.SizeInMB = v.size * 1024
      ]_vars

\* the disk of the 1 GB volume was extended to MaxSizeGB in one call
C11_Witness ==
    /\ last.op = "extend_volume"
    /\ last.exc = NoExc
    /\ last.args.new_size = MaxSizeGB
    /\ \E i \in DOMAIN last.calls :
          /\ last.calls[i].api = "WT_Disk.Extend"
          /\ last.calls[i].n = (MaxSizeGB - 1) * 1024
    /\ \E d \in wt_disks : d.Description = last.args.volume
                            /\ d.SizeInMB = MaxSizeGB * 1024

\* C15: a failure of the extend primitive leaves extend_volume as a
\* VolumeBackendAPIException whose message names the volume, and no other
\* kind of exception leaves it; when no disk is described by the volume name
\* extend_volume returns normally, never invokes the extend primitive and
\* changes nothing in the backend.  A failure of the disk query itself is
\* wrapped in the same way.
C15_ExtendFailureWrapped ==
    [][ (last'.op = "extend_volume")
        => LET vol_name == last'.args.volume
               q == WT_Disk(Store, vol_name)
           IN  /\ last'.exc \in {NoExc, VolumeBackendAPIException}
               /\ (last'.fault = "WT_Disk" \/ (q # {} /\ last'.fault = "Extend"))
                  => /\ last'.exc = VolumeBackendAPIException
                     /\ contains(last'.info, vol_name)
                     /\ Logged(last'.log, last'.info)
               /\ (last'.exc = VolumeBackendAPIException)
                  => /\ last'.fault = "WT_Disk"
                        \/ (q # {} /\ last'.fault = "Extend")
                     /\ Store' = Store
               /\ (q = {} /\ last'.fault # "WT_Disk")
                  => /\ last'.exc = NoExc
                     /\ ~HasCall(last'.calls, "WT_Disk.Extend")
                     /\ Store' = Store
      ]_vars

\* the extend primitive failed on an existing disk and the failure was wrapped
C15_Witness ==
    /\ last.op = "extend_volume"
    /\ last.fault = "Extend"
    /\ last.exc = VolumeBackendAPIException
    /\ HasCall(last.calls, "WT_Disk.Extend")
    /\ WT_Disk(Store, last.args.volume) # {}

\* C12: create_snapshot looks up the source disk by the snapshot's volume
\* name, creates the snapshot of that disk, reads the created snapshot back by
\* the id the creation returned and gives it the snapshot name as description,
\* in that order; a delete_snapshot of the same name that follows a successful
\* create_snapshot succeeds and deletes one snapshot of that description.
C12_SnapshotTaggedThenDeletable ==
    [][ /\ (last'.op = "create_snapshot" /\ WT_Disk(Store, last'.args.volume) # {})
           => LET wt_disk == FirstDisk(WT_Disk(Store, last'.args.volume))
              IN  /\ last'.exc = NoExc
                  /\ \E s \in wt_snapshots' \ wt_snapshots :
                        /\ wt_snapshots' = wt_snapshots \cup {s}
                        /\ s.Description = last'.args.snapshot
                        /\ s.WTD = wt_disk.WTD
                        /\ last'.calls =
                             <<Call("WT_Disk", last'.args.volume, "", 0),
                               Call("WT_Snapshot.Create", "", "", wt_disk.WTD),
                               Call("WT_Snapshot", "", "", s.Id),
                               Call("WT_Snapshot.put", last'.args.snapshot, "",
                                    s.Id)>>
        /\ ( /\ last.op = "create_snapshot"
             /\ last.exc = NoExc
             /\ last'.op = "delete_snapshot"
             /\ last'.args.snapshot = last.args.snapshot )
           => /\ last'.exc = NoExc
              /\ last'.calls[1] = Call("WT_Snapshot", last.args.snapshot, "", 0)
              /\ \E s \in wt_snapshots :
                    /\ s.Description = last.args.snapshot
                    /\ wt_snapshots' = wt_snapshots \ {s}
                    /\ last'.calls[2] = Call("WT_Snapshot.Delete_",
                                             last.args.snapshot, "", s.Id)
      ]_vars

\* a snapshot was created and the delete_snapshot that followed removed it
C12_Witness ==
    /\ last.op = "delete_snapshot"
    /\ last.exc = NoExc
    /\ HasCall(last.calls, "WT_Snapshot.Delete_")
    /\ \A s \in wt_snapshots : s.Description # last.args.snapshot

\* C14: no two live disks have the same description (volume name) and no two
\* live snapshots have the same description (snapshot name).
C14_DescriptionsUnique ==
    /\ \A d, e \in wt_disks : d.Description = e.Description => d = e
    /\ \A s, t \in wt_snapshots : s.Description = t.Description => s = t

----------------------------------------------------------------------------
(* Properties: images (SpecImage) *)

ConversionFiles(fs) ==
    { p \in DOMAIN fs : find(p, image_conversion_dir) = 0 }

\* C7: copy_image_to_volume of an image whose probe reports a backing file
\* fails with ImageUnacceptable without creating or modifying the
\* destination: neither the converter nor the file copy is invoked.
C7_BackedImageRejected ==
    [][ ( /\ last'.op = "copy_image_to_volume"
          /\ HasCall(last'.calls, "qemu-img info")
          /\ last'.args.image.backing_file # None )
        => LET dest == local_path(VolumeNamed(last'.args.volume))
           IN  /\ last'.exc = ImageUnacceptable
               /\ dest \in DOMAIN files' <=> dest \in DOMAIN files
               /\ dest \in DOMAIN files => files'[dest] = files[dest]
               /\ ~HasCall(last'.calls, "qemu-img convert")
               /\ ~HasCall(last'.calls, "CIM_DataFile")
               /\ ~HasCall(last'.calls, "CIM_DataFile.Copy")
      ]_vars

C7_Witness ==
    /\ last.op = "copy_image_to_volume"
    /\ last.exc = ImageUnacceptable
    /\ last.args.image.backing_file # None
    /\ last.args.image.file_format = "qcow2"
    /\ local_path(VolumeNamed(last.args.volume)) \notin DOMAIN files

\* C8: copy_image_to_volume of an image already in the 'vpc' format with no
\* backing file takes the file-copy path, never the converter, and leaves a
\* destination that probes as 'vpc'; for every image it returns normally
\* only if the destination probes as exactly 'vpc', and when the
\* destination is not 'vpc' (the download done and the converter started)
\* it fails with ImageUnacceptable.
C8_DestinationIsVpc ==
    (last.op = "copy_image_to_volume")
    => LET dest == local_path(VolumeNamed(last.args.volume))
           image == last.args.image
           reprobe == \E i \in CallsOf(last.calls, "qemu-img info") :
                          last.calls[i].arg1 = dest
           fmt == qemu_img_info(Store, dest).file_format
       IN  /\ (image = Content("vpc", None) /\ last.fault # "fetch")
              => /\ HasCall(last.calls, "CIM_DataFile.Copy")
                 /\ ~HasCall(last.calls, "qemu-img convert")
                 /\ last.exc = NoExc
                 /\ files[dest] = image
           /\ last.exc = NoExc => (reprobe /\ fmt = "vpc")
           /\ (reprobe /\ fmt # "vpc") => last.exc = ImageUnacceptable
           /\ (last.fault \in {"none", "convert_silent"} /\ fmt # "vpc")
              => last.exc = ImageUnacceptable

C8_Witness ==
    /\ last.op = "copy_image_to_volume"
    /\ last.args.image = Content("vpc", None)
    /\ last.exc = NoExc
    /\ HasCall(last.calls, "CIM_DataFile.Copy")

\* C9: on every exit path of copy_image_to_volume and copy_volume_to_image,
\* every temporary file the operation created in the conversion directory
\* has been removed when the operation ends.
C9_TemporaryFilesRemoved ==
    [][ (last'.op \in {"copy_image_to_volume", "copy_volume_to_image"})
        => ConversionFiles(files') \subseteq ConversionFiles(files)
      ]_vars

====
